---- MODULE Spec2Model ----
(***************************************************************************)
(* A model of src/connector.rs: the ConnectorBuilder, the Connector it     *)
(* builds, and the Connector's three operations (connect_with_addr,        *)
(* connect_with_uri, upgrade_to_tls) as callers run them concurrently.     *)
(*                                                                         *)
(* The OS socket facility, the TLS engine (native_tls) and the proxy       *)
(* collaborator are the environment: every answer they can give is an      *)
(* input drawn from a small set.                                           *)
(***************************************************************************)
EXTENDS Naturals, Sequences, FiniteSets

\* ------------------------------------------------------------------ bounds

\* Durations are 1..MaxDuration (units do not matter to the code).
MaxDuration == 1
\* Setter calls made on one builder chain.
MaxSetterCalls == 2
\* Connectors built from one builder (build takes &self).
MaxConnectors == 2
\* Would-block signals the transport gives during one handshake.
MaxWouldBlock == 2

\* ------------------------------------------------------------------ values

\* Option::None and Option::Some(v), as sequences of length 0 and 1.
None == <<>>

Some(v) == <<v>>

Durations == 1..MaxDuration

\* Option<Duration>
OptDuration == {None} \cup {Some(d) : d \in Durations}

\* Option<Proxy>; a Proxy is opaque here.
OptProxy == {None, Some("proxy_a")}

\* Result<T>
Ok(v) == [tag |-> "Ok", val |-> v]

Err(kind) == [tag |-> "Err", kind |-> kind]

\* ---------------------------------------------------------- ConnectorBuilder

\* #[derive(Default)] on ConnectorBuilder
ConnectorBuilderDefault ==
  [hostname_verification |-> FALSE,
   certs_verification    |-> FALSE,
   read_timeout          |-> None,
   write_timeout         |-> None,
   connect_timeout       |-> None,
   nodelay               |-> FALSE,
   proxy                 |-> None]

\* Every value a ConnectorBuilder can take.
ConnectorBuilders ==
  [hostname_verification : BOOLEAN,
   certs_verification    : BOOLEAN,
   read_timeout          : OptDuration,
   write_timeout         : OptDuration,
   connect_timeout       : OptDuration,
   nodelay               : BOOLEAN,
   proxy                 : OptProxy]

hostname_verification(self, value) == [self EXCEPT !.hostname_verification = value]

certs_verification(self, value) == [self EXCEPT !.certs_verification = value]

nodelay(self, value) == [self EXCEPT !.nodelay = value]

read_timeout(self, timeout) == [self EXCEPT !.read_timeout = timeout]

\* write_timeout as a copy of read_timeout that still writes the read timeout.
write_timeout_WritesRead(self, timeout) == [self EXCEPT !.read_timeout = timeout]

write_timeout(self, timeout) == [self EXCEPT !.write_timeout = timeout]

connect_timeout(self, timeout) == [self EXCEPT !.connect_timeout = timeout]

proxy(self, addr) == [self EXCEPT !.proxy = addr]

\* TlsConnector::builder().danger_accept_invalid_hostnames(h)
\*   .danger_accept_invalid_certs(c).build(): the compiled context keeps the
\* two flags; engine_ok is whether the platform could construct it.
TlsConnectorBuild(h, c, engine_ok) ==
  IF engine_ok
  THEN Ok([accept_invalid_hostnames |-> h, accept_invalid_certs |-> c])
  ELSE Err("TlsConfigError")

\* build that hands the verification flags to the engine as they are.
build_NoNegation(self, engine_ok) ==
  LET tls == TlsConnectorBuild(self.hostname_verification,
                               self.certs_verification, engine_ok)
  IN IF tls.tag = "Err" THEN tls
     ELSE Ok([connect_timeout |-> self.connect_timeout,
              nodelay         |-> self.nodelay,
              read_timeout    |-> self.read_timeout,
              write_timeout   |-> self.write_timeout,
              proxy           |-> self.proxy,
              tls             |-> tls.val])

\* ConnectorBuilder::build(&self)
build(self, engine_ok) ==
  LET tls == TlsConnectorBuild(~self.hostname_verification,
                               ~self.certs_verification, engine_ok)
  IN IF tls.tag = "Err" THEN tls
     ELSE Ok([connect_timeout |-> self.connect_timeout,
              nodelay         |-> self.nodelay,
              read_timeout    |-> self.read_timeout,
              write_timeout   |-> self.write_timeout,
              proxy           |-> self.proxy,
              tls             |-> tls.val])

\* Equality as #[derive(PartialEq)] would give it: field by field.
ConnectorEq_Derived(self, other) == self = other

\* impl PartialEq for Connector
ConnectorEq(self, other) == TRUE

\* impl Default for Connector: ConnectorBuilder::default().build().expect(..)
ConnectorDefault == build(ConnectorBuilderDefault, TRUE).val

\* ------------------------------------------------------- OS socket facility

\* SocketAddr: the address family and, for the environment, whether the
\* endpoint answers.
SocketAddrs == [family : {"IPV4", "IPV6"}, reachable : BOOLEAN]

\* Domain::for_address(addr)
DomainForAddress(addr) == addr.family

\* RawSocket::new(domain, Type::STREAM, Some(Protocol::TCP)): a fresh socket
\* carries the OS defaults (Nagle buffering on, no timeouts, not connected).
RawSocketNew(domain) ==
  [family        |-> domain,
   nodelay       |-> FALSE,
   read_timeout  |-> None,
   write_timeout |-> None,
   peer          |-> None]

\* The socket calls of connect_with_addr the OS can fail, "none" for none.
SetupFailures == {"none", "new", "set_nodelay", "set_read_timeout", "set_write_timeout"}

\* One entry of a call's trace: an operation on an external collaborator,
\* its argument and how it ended (None while it has not).
Op(name, arg, r) == [call |-> name, arg |-> arg, ret |-> r]

\* How the OS ends socket call `name` when it fails the call os_fail.
OsRet(name, os_fail) == IF os_fail = name THEN Some("err") ELSE Some("ok")

\* connect_with_addr without lines 150-152: the no-delay flag is not applied.
SocketSetup_NoNodelay(self, addr, os_fail) ==
  LET t1 == <<Op("new", <<DomainForAddress(addr)>>, OsRet("new", os_fail))>>
      s1 == RawSocketNew(DomainForAddress(addr))
      t3 == Append(t1, Op("set_read_timeout", self.read_timeout,
                          OsRet("set_read_timeout", os_fail)))
      s3 == [s1 EXCEPT !.read_timeout = self.read_timeout]
      t4 == Append(t3, Op("set_write_timeout", self.write_timeout,
                          OsRet("set_write_timeout", os_fail)))
      s4 == [s3 EXCEPT !.write_timeout = self.write_timeout]
  IN  IF os_fail = "new" THEN [ret |-> Err("SocketSetupError"), trace |-> t1]
      ELSE IF os_fail = "set_read_timeout"
             THEN [ret |-> Err("SocketSetupError"), trace |-> t3]
      ELSE IF os_fail = "set_write_timeout"
             THEN [ret |-> Err("SocketSetupError"), trace |-> t4]
      ELSE [ret |-> Ok(s4), trace |-> t4]

\* A setup that sets a timeout only when one is configured.
SocketSetup_SkipsUnsetTimeouts(self, addr, os_fail) ==
  LET t1 == <<Op("new", <<DomainForAddress(addr)>>, OsRet("new", os_fail))>>
      s1 == RawSocketNew(DomainForAddress(addr))
      t2 == IF self.nodelay
            THEN Append(t1, Op("set_nodelay", <<self.nodelay>>,
                               OsRet("set_nodelay", os_fail)))
            ELSE t1
      s2 == IF self.nodelay THEN [s1 EXCEPT !.nodelay = self.nodelay] ELSE s1
      t3 == IF self.read_timeout # None
            THEN Append(t2, Op("set_read_timeout", self.read_timeout,
                               OsRet("set_read_timeout", os_fail)))
            ELSE t2
      s3 == [s2 EXCEPT !.read_timeout = self.read_timeout]
      t4 == IF self.write_timeout # None
            THEN Append(t3, Op("set_write_timeout", self.write_timeout,
                               OsRet("set_write_timeout", os_fail)))
            ELSE t3
      s4 == [s3 EXCEPT !.write_timeout = self.write_timeout]
  IN  IF os_fail = "new" THEN [ret |-> Err("SocketSetupError"), trace |-> t1]
      ELSE IF self.nodelay /\ os_fail = "set_nodelay"
             THEN [ret |-> Err("SocketSetupError"), trace |-> t2]
      ELSE IF self.read_timeout # None /\ os_fail = "set_read_timeout"
             THEN [ret |-> Err("SocketSetupError"), trace |-> t3]
      ELSE IF self.write_timeout # None /\ os_fail = "set_write_timeout"
             THEN [ret |-> Err("SocketSetupError"), trace |-> t4]
      ELSE [ret |-> Ok(s4), trace |-> t4]

\* connect_with_addr with the result of set_nodelay discarded: a failure to
\* set the option is passed over and the call goes on.
SocketSetup_NodelayErrorIgnored(self, addr, os_fail) ==
  LET t1 == <<Op("new", <<DomainForAddress(addr)>>, OsRet("new", os_fail))>>
      s1 == RawSocketNew(DomainForAddress(addr))
      t2 == IF self.nodelay
            THEN Append(t1, Op("set_nodelay", <<self.nodelay>>,
                               OsRet("set_nodelay", os_fail)))
            ELSE t1
      s2 == IF self.nodelay /\ os_fail # "set_nodelay"
            THEN [s1 EXCEPT !.nodelay = self.nodelay] ELSE s1
      t3 == Append(t2, Op("set_read_timeout", self.read_timeout,
                          OsRet("set_read_timeout", os_fail)))
      s3 == [s2 EXCEPT !.read_timeout = self.read_timeout]
      t4 == Append(t3, Op("set_write_timeout", self.write_timeout,
                          OsRet("set_write_timeout", os_fail)))
      s4 == [s3 EXCEPT !.write_timeout = self.write_timeout]
  IN  IF os_fail = "new" THEN [ret |-> Err("SocketSetupError"), trace |-> t1]
      ELSE IF os_fail = "set_read_timeout"
             THEN [ret |-> Err("SocketSetupError"), trace |-> t3]
      ELSE IF os_fail = "set_write_timeout"
             THEN [ret |-> Err("SocketSetupError"), trace |-> t4]
      ELSE [ret |-> Ok(s4), trace |-> t4]

\* connect_with_addr up to the connect: lines 148-154.  os_fail is the
\* socket call the OS fails.  Gives [ret, trace]: ret is Ok(socket) when every
\* call made succeeded, and the Err the `?` returns otherwise.
SocketSetup(self, addr, os_fail) ==
  LET t1 == <<Op("new", <<DomainForAddress(addr)>>, OsRet("new", os_fail))>>
      s1 == RawSocketNew(DomainForAddress(addr))
      t2 == IF self.nodelay
            THEN Append(t1, Op("set_nodelay", <<self.nodelay>>,
                               OsRet("set_nodelay", os_fail)))
            ELSE t1
      s2 == IF self.nodelay THEN [s1 EXCEPT !.nodelay = self.nodelay] ELSE s1
      t3 == Append(t2, Op("set_read_timeout", self.read_timeout,
                          OsRet("set_read_timeout", os_fail)))
      s3 == [s2 EXCEPT !.read_timeout = self.read_timeout]
      t4 == Append(t3, Op("set_write_timeout", self.write_timeout,
                          OsRet("set_write_timeout", os_fail)))
      s4 == [s3 EXCEPT !.write_timeout = self.write_timeout]
  IN  IF os_fail = "new" THEN [ret |-> Err("SocketSetupError"), trace |-> t1]
      ELSE IF self.nodelay /\ os_fail = "set_nodelay"
             THEN [ret |-> Err("SocketSetupError"), trace |-> t2]
      ELSE IF os_fail = "set_read_timeout"
             THEN [ret |-> Err("SocketSetupError"), trace |-> t3]
      ELSE IF os_fail = "set_write_timeout"
             THEN [ret |-> Err("SocketSetupError"), trace |-> t4]
      ELSE [ret |-> Ok(s4), trace |-> t4]

\* A connect that ignores connect_timeout and always blocks.
ConnectOp_AlwaysBlocking(self) == Op("connect", None, None)

\* The connect call connect_with_addr makes, lines 155-162, not yet answered.
ConnectOp(self) ==
  IF self.connect_timeout = None
  THEN Op("connect", None, None)
  ELSE Op("connect_timeout", self.connect_timeout, None)

\* What the OS can answer to a connect: a blocking connect ends when the OS
\* reports success or failure; a bounded one also ends when the time is up.
ConnectOutcomes(addr, op) ==
  IF addr.reachable THEN {"ok", "ConnectionRefused"}
  ELSE IF op.call = "connect_timeout" THEN {"TimedOut"}
  ELSE {"HostUnreachable"}

\* Socket::TCP(socket) and Socket::TLS(stream)
SocketTCP(s) == [variant |-> "TCP", inner |-> s]

SocketTLS(s) == [variant |-> "TLS", inner |-> s]

\* ------------------------------------------------------------- TLS engine

\* The server as the engine judges it against the domain: whether its
\* certificate chain is valid and whether the certificate names the domain.
Peers == [cert_valid : BOOLEAN, host_matches : BOOLEAN]

\* What one handshake step can meet: the transport would block, the transport
\* fails, or the exchange completes and the engine verifies the server.
StepInputs ==
  {[report |-> "would_block", seen |-> None],
   [report |-> "io_error", seen |-> None]}
  \cup {[report |-> "complete", seen |-> Some(p)] : p \in Peers}

Domains == {"example.org"}

\* The engine's verification under a compiled context.
Verifies(ctx, peer) ==
  /\ (peer.cert_valid \/ ctx.accept_invalid_certs)
  /\ (peer.host_matches \/ ctx.accept_invalid_hostnames)

\* One step of the engine on handshake state hs: HandshakeError::WouldBlock
\* carries the advanced state, Ok the established stream, Failure the error.
HandshakeStep(hs, in) ==
  LET next == [hs EXCEPT !.steps = @ + 1]
  IN  IF in.report = "would_block" THEN [tag |-> "WouldBlock", mid |-> next]
      ELSE IF in.report = "io_error" THEN [tag |-> "Failure", err |-> "HandshakeIo"]
      ELSE IF Verifies(hs.ctx, in.seen[1]) THEN [tag |-> "Ok", val |-> next]
      ELSE [tag |-> "Failure", err |-> "HandshakeCertificate"]

\* The handshake state a connect starts from.
NewHandshake(ctx, domain, s) ==
  [ctx |-> ctx, domain |-> domain, stream |-> s, steps |-> 0]

\* TlsConnector::connect(domain, stream)
TlsConnect(ctx, domain, s, in) == HandshakeStep(NewHandshake(ctx, domain, s), in)

\* MidHandshakeTlsStream::handshake()
MidHandshake(mid, in) == HandshakeStep(mid, in)

\* One entry of an upgrade's trace: the engine call, the handshake state it
\* was invoked on, what it returned, and the server it verified (None when
\* the step ended before the engine had the certificate to verify).
TlsOp(name, on, r, in) == [call |-> name, arg |-> on, ret |-> r, seen |-> in.seen]

\* ------------------------------------------------ proxy tunnelling collaborator

\* The target URIs, by scheme.
Targets == {"http", "https"}

\* What the collaborator can meet: the tunnel is set up, or it is not.
TunnelOutcomes == {"ok", "ProxyTunnelError"}

\* ProxySocket::new(target, &self.proxy)
ProxySocketNew(target, p) == [target |-> target, proxy |-> p]

\* The address the collaborator resolves for its first leg.
ResolvedAddr(ps) == [family |-> "IPV4", reachable |-> TRUE]

\* ProxySocket::conn_with_connector(connector): a Plain socket positioned at
\* the target, opened with the connector's socket options, or the error of
\* the proxy exchange.
ConnWithConnector(ps, connector, outcome) ==
  IF outcome = "ok"
  THEN Ok(SocketTCP([SocketSetup(connector, ResolvedAddr(ps), "none").ret.val
                       EXCEPT !.peer = Some(ps)]))
  ELSE Err(outcome)

\* connect_with_uri that hands the collaborator no proxy.
connect_with_uri_NoProxy(self, target, outcome) ==
  LET ps == ProxySocketNew(target, None)
  IN  [ret   |-> ConnWithConnector(ps, self, outcome),
       trace |-> <<Op("conn_with_connector", [ps |-> ps, connector |-> self],
                     Some(outcome))>>]

\* connect_with_uri that secures the socket itself when the scheme asks for it.
connect_with_uri_AutoUpgrade(self, target, outcome) ==
  LET ps == ProxySocketNew(target, self.proxy)
      r  == ConnWithConnector(ps, self, outcome)
  IN  [ret   |-> IF r.tag = "Ok" /\ target = "https"
                 THEN Ok(SocketTLS([NewHandshake(self.tls, "example.org", r.val.inner)
                                      EXCEPT !.steps = 1]))
                 ELSE r,
       trace |-> <<Op("conn_with_connector", [ps |-> ps, connector |-> self],
                     Some(outcome))>>]

\* Connector::connect_with_uri(&self, target): [ret, trace].
connect_with_uri(self, target, outcome) ==
  LET ps == ProxySocketNew(target, self.proxy)
  IN  [ret   |-> ConnWithConnector(ps, self, outcome),
       trace |-> <<Op("conn_with_connector", [ps |-> ps, connector |-> self],
                     Some(outcome))>>]

\* ------------------------------------------------------------------- state

Callers == {"c1", "c2"}

VARIABLES
  builder,      \* the ConnectorBuilder of the fluent chain
  hist,         \* the setter calls made on the chain, in order
  connectors,   \* the Connectors built so far
  origin,       \* per Connector, the chain of setter calls before its build()
  built,        \* what the last build() returned
  cmp,          \* the last Connector comparison and its answer
  pc,           \* per caller: "idle", "connecting", "handshake", "returned"
  call,         \* per caller: the call it is in or made last, with its arguments
  local,        \* per caller: the call's local (`socket`, `stream`)
  ret,          \* per caller: what its last call returned
  trace         \* per caller: the operations its call made on the OS, the
                \* TLS engine and the collaborator

builderVars == <<builder, hist, connectors, origin, built, cmp>>

callVars == <<pc, call, local, ret, trace>>

vars == <<builder, hist, connectors, origin, built, cmp,
          pc, call, local, ret, trace>>

\* One setter call of the chain.
Set(field, value) == [field |-> field, value |-> value]

NoCall == [name |-> "none"]

CallersIdle ==
  /\ pc = [t \in Callers |-> "idle"]
  /\ call = [t \in Callers |-> NoCall]
  /\ local = [t \in Callers |-> None]
  /\ ret = [t \in Callers |-> None]
  /\ trace = [t \in Callers |-> <<>>]

\* ----------------------------------------------------- the builder's chain

\* ConnectorBuilder::default(): a fresh builder, nothing built.
InitBuilder ==
  /\ builder = ConnectorBuilderDefault
  /\ hist = <<>>
  /\ connectors = <<>>
  /\ origin = <<>>
  /\ built = None
  /\ cmp = None
  /\ CallersIdle

SetterStep(b, h) ==
  /\ Len(hist) < MaxSetterCalls
  /\ builder' = b
  /\ hist' = h
  /\ UNCHANGED <<connectors, origin, built, cmp, callVars>>

SetHostnameVerification(v) ==
  SetterStep(hostname_verification(builder, v),
             Append(hist, Set("hostname_verification", v)))

SetCertsVerification(v) ==
  SetterStep(certs_verification(builder, v),
             Append(hist, Set("certs_verification", v)))

SetNodelay(v) ==
  SetterStep(nodelay(builder, v), Append(hist, Set("nodelay", v)))

SetReadTimeout(v) ==
  SetterStep(read_timeout(builder, v), Append(hist, Set("read_timeout", v)))

SetWriteTimeout(v) ==
  SetterStep(write_timeout(builder, v), Append(hist, Set("write_timeout", v)))

SetConnectTimeout(v) ==
  SetterStep(connect_timeout(builder, v),
             Append(hist, Set("connect_timeout", v)))

SetProxy(v) ==
  SetterStep(proxy(builder, v), Append(hist, Set("proxy", v)))

\* A build() that takes its builder by value: what is left is a fresh builder.
Build_Consuming(engine_ok) ==
  /\ Len(connectors) < MaxConnectors
  /\ built' = Some(build(builder, engine_ok))
  /\ IF build(builder, engine_ok).tag = "Ok"
     THEN /\ connectors' = Append(connectors, build(builder, engine_ok).val)
          /\ origin' = Append(origin, hist)
     ELSE UNCHANGED <<connectors, origin>>
  /\ builder' = ConnectorBuilderDefault
  /\ hist' = <<>>
  /\ UNCHANGED <<cmp, callVars>>

\* builder.build(): the builder is read, not consumed.
Build(engine_ok) ==
  /\ Len(connectors) < MaxConnectors
  /\ built' = Some(build(builder, engine_ok))
  /\ IF build(builder, engine_ok).tag = "Ok"
     THEN /\ connectors' = Append(connectors, build(builder, engine_ok).val)
          /\ origin' = Append(origin, hist)
     ELSE UNCHANGED <<connectors, origin>>
  /\ UNCHANGED <<builder, hist, cmp, callVars>>

\* Connector::default()
Default ==
  /\ Len(connectors) < MaxConnectors
  /\ connectors' = Append(connectors, ConnectorDefault)
  /\ origin' = Append(origin, <<>>)
  /\ UNCHANGED <<builder, hist, built, cmp, callVars>>

\* connectors[i] == connectors[j]
Compare(i, j) ==
  /\ cmp' = Some([a |-> i, b |-> j, eq |-> ConnectorEq(connectors[i], connectors[j])])
  /\ UNCHANGED <<builder, hist, connectors, origin, built, callVars>>

NextBuilder ==
  \/ \E v \in BOOLEAN : SetHostnameVerification(v)
  \/ \E v \in BOOLEAN : SetCertsVerification(v)
  \/ \E v \in BOOLEAN : SetNodelay(v)
  \/ \E v \in OptDuration : SetReadTimeout(v)
  \/ \E v \in OptDuration : SetWriteTimeout(v)
  \/ \E v \in OptDuration : SetConnectTimeout(v)
  \/ \E v \in OptProxy : SetProxy(v)
  \/ \E ok \in BOOLEAN : Build(ok)
  \/ Default

SpecBuilder == InitBuilder /\ [][NextBuilder]_vars

\* ------------------------------------------------------ the Connector's calls

\* The caller is not inside a call and holds nothing.
Free(t) == pc[t] = "idle"

\* A call of caller t returns r.
Return(t, r, tr) ==
  /\ pc' = [pc EXCEPT ![t] = "returned"]
  /\ ret' = [ret EXCEPT ![t] = Some(r)]
  /\ local' = [local EXCEPT ![t] = None]
  /\ trace' = [trace EXCEPT ![t] = tr]

\* connectors[c].connect_with_addr(addr), lines 147-162: the socket is
\* allocated, its options are set and the connect is issued; an Err of any
\* of these is returned at once.
ConnectWithAddr(t, c, addr, os_fail) ==
  LET self  == connectors[c]
      setup == SocketSetup(self, addr, os_fail)
  IN  /\ Free(t)
      /\ call' = [call EXCEPT ![t] =
                    [name |-> "connect_with_addr", self |-> c, addr |-> addr]]
      /\ IF setup.ret.tag = "Err"
         THEN Return(t, setup.ret, setup.trace)
         ELSE /\ pc' = [pc EXCEPT ![t] = "connecting"]
              /\ local' = [local EXCEPT ![t] = Some(setup.ret.val)]
              /\ ret' = [ret EXCEPT ![t] = None]
              /\ trace' = [trace EXCEPT ![t] = Append(setup.trace, ConnectOp(self))]
      /\ UNCHANGED builderVars

\* The trace once the OS has answered its last operation.
Answered(tr, outcome) == [tr EXCEPT ![Len(tr)].ret = Some(outcome)]

\* A connect that is tried a second time when the first attempt fails.
ConnectReturns_RetryOnce(t, outcome) ==
  /\ pc[t] = "connecting"
  /\ outcome \in ConnectOutcomes(call[t].addr, trace[t][Len(trace[t])])
  /\ IF outcome = "ok"
     THEN Return(t, Ok(SocketTCP([local[t][1] EXCEPT !.peer = Some(call[t].addr)])),
                 Answered(trace[t], outcome))
     ELSE IF Len(SelectSeq(trace[t],
                   LAMBDA e : e.call \in {"connect", "connect_timeout"})) = 1
     THEN /\ trace' = [trace EXCEPT ![t] =
                         Append(Answered(trace[t], outcome),
                                ConnectOp(connectors[call[t].self]))]
          /\ UNCHANGED <<pc, local, ret>>
     ELSE Return(t, Err(outcome), Answered(trace[t], outcome))
  /\ UNCHANGED <<builderVars, call>>

\* The OS answers the connect, lines 157-163: `?` returns its error, and
\* success returns Socket::TCP(socket).
ConnectReturns(t, outcome) ==
  /\ pc[t] = "connecting"
  /\ outcome \in ConnectOutcomes(call[t].addr, trace[t][Len(trace[t])])
  /\ IF outcome = "ok"
     THEN Return(t, Ok(SocketTCP([local[t][1] EXCEPT !.peer = Some(call[t].addr)])),
                 Answered(trace[t], outcome))
     ELSE Return(t, Err(outcome), Answered(trace[t], outcome))
  /\ UNCHANGED <<builderVars, call>>

\* connectors[c].connect_with_uri(target), lines 166-168.
ConnectWithUri(t, c, target, outcome) ==
  LET r == connect_with_uri(connectors[c], target, outcome)
  IN  /\ Free(t)
      /\ call' = [call EXCEPT ![t] =
                    [name |-> "connect_with_uri", self |-> c, target |-> target]]
      /\ Return(t, r.ret, r.trace)
      /\ UNCHANGED builderVars

\* A loop that takes a further engine step after the handshake completed.
AfterStep_StepsOn(t, r, tr) ==
  IF r.tag = "WouldBlock" \/ (r.tag = "Ok" /\ Len(tr) < 2)
  THEN /\ pc' = [pc EXCEPT ![t] = "handshake"]
       /\ local' = [local EXCEPT ![t] =
                      Some([tag |-> "WouldBlock",
                            mid |-> IF r.tag = "Ok" THEN r.val ELSE r.mid])]
       /\ ret' = [ret EXCEPT ![t] = None]
       /\ trace' = [trace EXCEPT ![t] = tr]
  ELSE IF r.tag = "Ok"
  THEN Return(t, Ok(SocketTLS(r.val)), tr)
  ELSE Return(t, Err(r.err), tr)

\* A loop that gives up at its second would-block signal.
AfterStep_GivesUp(t, r, tr) ==
  IF r.tag = "WouldBlock" /\ Len(tr) < 2
  THEN /\ pc' = [pc EXCEPT ![t] = "handshake"]
       /\ local' = [local EXCEPT ![t] = Some(r)]
       /\ ret' = [ret EXCEPT ![t] = None]
       /\ trace' = [trace EXCEPT ![t] = tr]
  ELSE IF r.tag = "Ok"
  THEN Return(t, Ok(SocketTLS(r.val)), tr)
  ELSE IF r.tag = "WouldBlock"
  THEN Return(t, Err("HandshakeGaveUp"), tr)
  ELSE Return(t, Err(r.err), tr)

\* A loop that starts the handshake over when a step fails.
AfterStep_RestartOnFailure(t, r, tr) ==
  IF r.tag = "WouldBlock" \/ (r.tag = "Failure" /\ Len(tr) <= MaxWouldBlock)
  THEN /\ pc' = [pc EXCEPT ![t] = "handshake"]
       /\ local' = [local EXCEPT ![t] =
                      Some(IF r.tag = "WouldBlock" THEN r
                           ELSE [tag |-> "WouldBlock", mid |-> tr[1].arg])]
       /\ ret' = [ret EXCEPT ![t] = None]
       /\ trace' = [trace EXCEPT ![t] = tr]
  ELSE IF r.tag = "Ok"
  THEN Return(t, Ok(SocketTLS(r.val)), tr)
  ELSE Return(t, Err(r.err), tr)

\* Lines 176-179 after an engine step left r in `stream`: WouldBlock keeps
\* the loop going, anything else leaves it and `stream?` returns.
AfterStep(t, r, tr) ==
  IF r.tag = "WouldBlock"
  THEN /\ pc' = [pc EXCEPT ![t] = "handshake"]
       /\ local' = [local EXCEPT ![t] = Some(r)]
       /\ ret' = [ret EXCEPT ![t] = None]
       /\ trace' = [trace EXCEPT ![t] = tr]
  ELSE IF r.tag = "Ok"
  THEN Return(t, Ok(SocketTLS(r.val)), tr)
  ELSE Return(t, Err(r.err), tr)

\* The transport reports would-block at most MaxWouldBlock times a handshake.
MayReport(in, tr) == in.report = "would_block" => Len(tr) < MaxWouldBlock

\* upgrade_to_tls that hands a socket that is already TLS back to its caller.
UpgradeToTls_HandsBack(t, c, domain, in) ==
  LET self   == connectors[c]
      stream == ret[t][1].val
      r      == TlsConnect(self.tls, domain, stream.inner, in)
  IN  /\ pc[t] = "returned"
      /\ ret[t][1].tag = "Ok"
      /\ MayReport(in, <<>>)
      /\ call' = [call EXCEPT ![t] =
                    [name |-> "upgrade_to_tls", self |-> c, stream |-> stream,
                     domain |-> domain]]
      /\ IF stream.variant = "TLS"
         THEN Return(t, [tag |-> "Err", kind |-> "ConnectionAborted", val |-> stream],
                     <<>>)
         ELSE AfterStep(t, r,
                <<TlsOp("connect", NewHandshake(self.tls, domain, stream.inner), r, in)>>)
      /\ UNCHANGED builderVars

\* upgrade_to_tls without the match on the variant: whatever the socket
\* holds is handed to the engine.
UpgradeToTls_NoVariantCheck(t, c, domain, in) ==
  LET self   == connectors[c]
      stream == ret[t][1].val
      r      == TlsConnect(self.tls, domain, stream.inner, in)
  IN  /\ pc[t] = "returned"
      /\ ret[t][1].tag = "Ok"
      /\ MayReport(in, <<>>)
      /\ call' = [call EXCEPT ![t] =
                    [name |-> "upgrade_to_tls", self |-> c, stream |-> stream,
                     domain |-> domain]]
      /\ AfterStep(t, r,
           <<TlsOp("connect", NewHandshake(self.tls, domain, stream.inner), r, in)>>)
      /\ UNCHANGED builderVars

\* connectors[c].upgrade_to_tls(stream, domain), lines 171-190, up to the
\* first engine step: the caller hands over the socket its last call returned.
UpgradeToTls(t, c, domain, in) ==
  LET self   == connectors[c]
      stream == ret[t][1].val
      r      == TlsConnect(self.tls, domain, stream.inner, in)
  IN  /\ pc[t] = "returned"
      /\ ret[t][1].tag = "Ok"
      /\ MayReport(in, <<>>)
      /\ call' = [call EXCEPT ![t] =
                    [name |-> "upgrade_to_tls", self |-> c, stream |-> stream,
                     domain |-> domain]]
      /\ IF stream.variant = "TLS"
         THEN Return(t, Err("ConnectionAborted"), <<>>)
         ELSE AfterStep(t, r,
                <<TlsOp("connect", NewHandshake(self.tls, domain, stream.inner), r, in)>>)
      /\ UNCHANGED builderVars

\* A loop that derives the handshake state anew at every turn instead of
\* resuming the state the last step returned.
Handshake_Rederived(t, in) ==
  LET last == local[t][1].mid
      mid  == NewHandshake(last.ctx, last.domain, last.stream)
      r    == MidHandshake(mid, in)
  IN  /\ pc[t] = "handshake"
      /\ MayReport(in, trace[t])
      /\ AfterStep(t, r, Append(trace[t], TlsOp("handshake", mid, r, in)))
      /\ UNCHANGED <<builderVars, call>>

\* A loop whose partial handshake state sits in one slot all callers share:
\* a turn resumes whichever handshake was stored there.
Handshake_SharedSlot(t, in) ==
  LET u   == CHOOSE u \in Callers : pc[u] = "handshake"
      mid == local[u][1].mid
      r   == MidHandshake(mid, in)
  IN  /\ pc[t] = "handshake"
      /\ MayReport(in, trace[t])
      /\ AfterStep(t, r, Append(trace[t], TlsOp("handshake", mid, r, in)))
      /\ UNCHANGED <<builderVars, call>>

\* One more turn of the loop, line 177: stream = mid_handshake.handshake().
Handshake(t, in) ==
  LET mid == local[t][1].mid
      r   == MidHandshake(mid, in)
  IN  /\ pc[t] = "handshake"
      /\ MayReport(in, trace[t])
      /\ AfterStep(t, r, Append(trace[t], TlsOp("handshake", mid, r, in)))
      /\ UNCHANGED <<builderVars, call>>

\* The caller lets go of what its last call returned (a Socket is closed
\* when dropped).
Drop(t) ==
  /\ pc[t] = "returned"
  /\ pc' = [pc EXCEPT ![t] = "idle"]
  /\ call' = [call EXCEPT ![t] = NoCall]
  /\ ret' = [ret EXCEPT ![t] = None]
  /\ trace' = [trace EXCEPT ![t] = <<>>]
  /\ UNCHANGED <<builderVars, local>>

\* One step of caller t.
CallerStep(t) ==
  \/ \E c \in 1..Len(connectors), addr \in SocketAddrs, f \in SetupFailures :
        ConnectWithAddr(t, c, addr, f)
  \/ \E o \in {"ok", "ConnectionRefused", "TimedOut", "HostUnreachable"} :
        ConnectReturns(t, o)
  \/ \E c \in 1..Len(connectors), target \in Targets, o \in TunnelOutcomes :
        ConnectWithUri(t, c, target, o)
  \/ \E c \in 1..Len(connectors), d \in Domains, in \in StepInputs :
        UpgradeToTls(t, c, d, in)
  \/ \E in \in StepInputs : Handshake(t, in)
  \/ Drop(t)

\* The chain that calls every setter once, giving builder value b.
FullChain(b) ==
  <<Set("hostname_verification", b.hostname_verification),
    Set("certs_verification", b.certs_verification),
    Set("nodelay", b.nodelay),
    Set("read_timeout", b.read_timeout),
    Set("write_timeout", b.write_timeout),
    Set("connect_timeout", b.connect_timeout),
    Set("proxy", b.proxy)>>

\* A Connector built from any builder value, and no call made yet.
Init ==
  /\ builder \in ConnectorBuilders
  /\ hist = FullChain(builder)
  /\ connectors = <<build(builder, TRUE).val>>
  /\ origin = <<hist>>
  /\ built = Some(build(builder, TRUE))
  /\ cmp = None
  /\ CallersIdle

\* One caller uses the Connector.
Next == CallerStep("c1")

Spec == Init /\ [][Next]_vars

\* The OS answers a bounded connect (connect_timeout): it does so within the
\* duration it was given, whatever the address.
BoundedConnectReturns(t) ==
  /\ pc[t] = "connecting"
  /\ trace[t][Len(trace[t])].call = "connect_timeout"
  /\ \E o \in {"ok", "ConnectionRefused", "TimedOut"} : ConnectReturns(t, o)

\* The handshake loop takes its next turn (the transport reports something).
HandshakeTurn(t) == \E in \in StepInputs : Handshake(t, in)

\* The one caller's calls when the OS ends every bounded connect and the
\* transport answers every handshake step.  A blocking connect may never end.
SpecFair ==
  /\ Init
  /\ [][Next]_vars
  /\ WF_vars(BoundedConnectReturns("c1"))
  /\ WF_vars(HandshakeTurn("c1"))

\* Two Connectors, each built from any builder value, to be compared.
InitEq ==
  /\ builder \in ConnectorBuilders
  /\ hist = FullChain(builder)
  /\ \E first \in ConnectorBuilders :
        /\ connectors = <<build(first, TRUE).val, build(builder, TRUE).val>>
        /\ origin = <<FullChain(first), hist>>
  /\ built = Some(build(builder, TRUE))
  /\ cmp = None
  /\ CallersIdle

NextEq == \E i, j \in 1..Len(connectors) : Compare(i, j)

SpecEq == InitEq /\ [][NextEq]_vars

\* A builder one setter call away from the default one, at most.
OneSetterBuilders ==
  {ConnectorBuilderDefault}
  \cup {hostname_verification(ConnectorBuilderDefault, TRUE),
        certs_verification(ConnectorBuilderDefault, TRUE),
        nodelay(ConnectorBuilderDefault, TRUE)}
  \cup {read_timeout(ConnectorBuilderDefault, d) : d \in OptDuration}
  \cup {write_timeout(ConnectorBuilderDefault, d) : d \in OptDuration}
  \cup {connect_timeout(ConnectorBuilderDefault, d) : d \in OptDuration}
  \cup {proxy(ConnectorBuilderDefault, p) : p \in OptProxy}

\* Several callers share one Connector.
InitConcurrent == Init /\ builder \in OneSetterBuilders

NextConcurrent == \E t \in Callers : CallerStep(t)

SpecConcurrent == InitConcurrent /\ [][NextConcurrent]_vars

\* --------------------------------------------------------------- properties

\* The socket a returned call handed back, when it handed one back.
Returned(t) == pc[t] = "returned"

ReturnedOk(t) == pc[t] = "returned" /\ ret[t][1].tag = "Ok"

ReturnedErr(t) == pc[t] = "returned" /\ ret[t][1].tag = "Err"

\* Caller t is in, or last made, an upgrade_to_tls of a socket of this variant.
Upgrading(t, variant) ==
  call[t].name = "upgrade_to_tls" /\ call[t].stream.variant = variant

\* A raw OS socket, as opposed to a TLS session.
IsRaw(s) == "family" \in DOMAIN s

\* The entries of a trace that call one of `names`.
Calls(tr, names) == {i \in DOMAIN tr : tr[i].call \in names}

\* The would-block signals in an upgrade's trace.
WouldBlocks(tr) == Cardinality({i \in DOMAIN tr : tr[i].ret.tag = "WouldBlock"})

\* The value the last call of setter `field` in chain h gave, and the
\* field's default when the chain never calls it.
LastSet(h, field, default) ==
  LET at == {i \in DOMAIN h : h[i].field = field}
  IN  IF at = {} THEN default
      ELSE h[CHOOSE i \in at : \A j \in at : j <= i].value

\* C1: upgrade_to_tls of a socket that is already TLS returns the "already
\* secured" error (ConnectionAborted) having made no handshake step and no
\* other I/O, and no TLS socket ever wraps a TLS socket.
C1_AlreadySecured ==
  \A t \in Callers :
    /\ Upgrading(t, "TLS") =>
          /\ Returned(t)
          /\ ret[t] = Some(Err("ConnectionAborted"))
          /\ trace[t] = <<>>
    /\ (ReturnedOk(t) /\ ret[t][1].val.variant = "TLS") =>
          IsRaw(ret[t][1].val.inner.stream)

\* An upgrade of a TLS socket has returned.
C1_Witness == \E t \in Callers : Upgrading(t, "TLS") /\ Returned(t)

\* C2: an upgrade of a plain socket starts with one connect and every later
\* step is a handshake() on the very state the step before it returned with
\* would-block; when the transport gave N would-blocks and then success, the
\* call returns the TLS socket of the last step after exactly N+1 steps.
C2_ResumedSteps ==
  \A t \in Callers :
    Upgrading(t, "TCP") =>
      LET tr == trace[t]
          n  == WouldBlocks(tr)
      IN  /\ Len(tr) >= 1
          /\ tr[1].call = "connect"
          /\ \A i \in 2..Len(tr) :
                /\ tr[i].call = "handshake"
                /\ tr[i - 1].ret.tag = "WouldBlock"
                /\ tr[i].arg = tr[i - 1].ret.mid
          /\ ReturnedOk(t) =>
                /\ Len(tr) = n + 1
                /\ tr[Len(tr)].ret.tag = "Ok"
                /\ ret[t][1].val = SocketTLS(tr[Len(tr)].ret.val)
                /\ ret[t][1].val.inner.steps = n + 1
                /\ ret[t][1].val.inner.stream = call[t].stream.inner

\* An upgrade succeeded after two would-blocks or more.
C2_Witness ==
  \E t \in Callers :
    Upgrading(t, "TCP") /\ ReturnedOk(t) /\ WouldBlocks(trace[t]) >= 2

\* C3: in an upgrade of a plain socket the engine's connect is invoked
\* exactly once, and a step that fails with anything but would-block is the
\* call's last step: the call has returned, with that error.
C3_TerminalFailure ==
  \A t \in Callers :
    Upgrading(t, "TCP") =>
      LET tr == trace[t]
      IN  /\ Cardinality(Calls(tr, {"connect"})) = 1
          /\ \A i \in DOMAIN tr :
                tr[i].ret.tag = "Failure" =>
                  /\ i = Len(tr)
                  /\ Returned(t)
                  /\ ret[t] = Some(Err(tr[i].ret.err))

\* An upgrade failed for good after a would-block.
C3_Witness ==
  \E t \in Callers :
    /\ Upgrading(t, "TCP") /\ ReturnedErr(t)
    /\ Len(trace[t]) >= 2
    /\ trace[t][Len(trace[t])].ret.tag = "Failure"

\* C4: a plain socket connect_with_addr returns has no-delay enabled when the
\* Connector was built with nodelay=true; when it was built with
\* nodelay=false the call makes no set_nodelay at all and the socket keeps
\* the OS default (off).
C4_Nodelay ==
  \A t \in Callers :
    call[t].name = "connect_with_addr" =>
      LET builtWith == LastSet(origin[call[t].self], "nodelay", FALSE)
      IN  /\ ReturnedOk(t) =>
                /\ ret[t][1].val.variant = "TCP"
                /\ ret[t][1].val.inner.nodelay = builtWith
                /\ builtWith =>
                      \E i \in Calls(trace[t], {"set_nodelay"}) :
                        trace[t][i].arg = <<TRUE>> /\ trace[t][i].ret = Some("ok")
          /\ ~builtWith => Calls(trace[t], {"set_nodelay"}) = {}

\* connect_with_addr returned a socket under nodelay=true.
C4_Witness ==
  \E t \in Callers :
    /\ call[t].name = "connect_with_addr" /\ ReturnedOk(t)
    /\ LastSet(origin[call[t].self], "nodelay", FALSE)
    /\ ret[t][1].val.inner.nodelay

\* The builder value a chain of setter calls gives, each field being the
\* value of its last call, or its default.
Chained(h) ==
  [hostname_verification |-> LastSet(h, "hostname_verification", FALSE),
   certs_verification    |-> LastSet(h, "certs_verification", FALSE),
   read_timeout          |-> LastSet(h, "read_timeout", None),
   write_timeout         |-> LastSet(h, "write_timeout", None),
   connect_timeout       |-> LastSet(h, "connect_timeout", None),
   nodelay               |-> LastSet(h, "nodelay", FALSE),
   proxy                 |-> LastSet(h, "proxy", None)]

\* C5: the builder's fields are each the value of the last call of their own
\* setter, or the default; a Connector's timeouts, nodelay and proxy are those
\* of the chain before its build(); and a Connector whose chain last set
\* read_timeout to None applies no read timeout to the sockets it sets up.
C5_LastWriteWins ==
  /\ builder = Chained(hist)
  /\ \A i \in DOMAIN connectors :
        LET want == Chained(origin[i])
            conn == connectors[i]
        IN  /\ conn.read_timeout = want.read_timeout
            /\ conn.write_timeout = want.write_timeout
            /\ conn.connect_timeout = want.connect_timeout
            /\ conn.nodelay = want.nodelay
            /\ conn.proxy = want.proxy
            /\ want.read_timeout = None =>
                  \A addr \in SocketAddrs :
                    SocketSetup(conn, addr, "none").ret.val.read_timeout = None

\* A Connector built after read_timeout(Some(d)) then read_timeout(None).
C5_Witness ==
  \E i \in DOMAIN connectors :
    /\ Len(origin[i]) = 2
    /\ origin[i][1].field = "read_timeout" /\ origin[i][1].value \in OptDuration \ {None}
    /\ origin[i][2].field = "read_timeout" /\ origin[i][2].value = None
    /\ connectors[i].read_timeout = None

\* A server with a self-signed certificate that does not name the domain.
SelfSignedMismatched == [cert_valid |-> FALSE, host_matches |-> FALSE]

\* C6: the TLS context build() compiles accepts invalid hostnames exactly
\* when hostname_verification is false and invalid certificates exactly when
\* certs_verification is false; against a server with a self-signed
\* certificate and a mismatched hostname, an upgrade by a Connector built with
\* both flags false completes, and one by a Connector built with both flags
\* true fails with a certificate error.
C6_Verification ==
  /\ \A i \in DOMAIN connectors :
        /\ connectors[i].tls.accept_invalid_hostnames
             = ~Chained(origin[i]).hostname_verification
        /\ connectors[i].tls.accept_invalid_certs
             = ~Chained(origin[i]).certs_verification
  /\ \A t \in Callers :
        Upgrading(t, "TCP") =>
          \A i \in DOMAIN trace[t] :
            trace[t][i].seen = Some(SelfSignedMismatched) =>
              LET want == Chained(origin[call[t].self])
              IN  /\ (~want.hostname_verification /\ ~want.certs_verification) =>
                        /\ trace[t][i].ret.tag = "Ok"
                        /\ ReturnedOk(t)
                        /\ ret[t][1].val.variant = "TLS"
                  /\ (want.hostname_verification /\ want.certs_verification) =>
                        /\ trace[t][i].ret.tag = "Failure"
                        /\ ret[t] = Some(Err("HandshakeCertificate"))

\* The default Connector secured a socket to such a server.
C6_Witness ==
  \E t \in Callers :
    /\ Upgrading(t, "TCP") /\ ReturnedOk(t)
    /\ connectors[call[t].self] = ConnectorDefault
    /\ trace[t][Len(trace[t])].seen = Some(SelfSignedMismatched)

\* The configuration a Connector carries: its timeouts, nodelay and proxy.
ConfigOf(conn) ==
  [connect_timeout |-> conn.connect_timeout,
   nodelay         |-> conn.nodelay,
   read_timeout    |-> conn.read_timeout,
   write_timeout   |-> conn.write_timeout,
   proxy           |-> conn.proxy]

\* C7 as stated: two Connectors compare equal exactly when their timeouts,
\* nodelay and proxy have the same values.
C7_EqualityOverConfiguration ==
  cmp # None =>
    (cmp[1].eq <=> ConfigOf(connectors[cmp[1].a]) = ConfigOf(connectors[cmp[1].b]))

\* C7, amended: every two Connectors compare equal, whatever their TLS
\* contexts and whatever their timeouts, nodelay and proxy; so two Connectors
\* of identical configuration compare equal.
C7_AlwaysEqual == cmp # None => cmp[1].eq

\* Two Connectors of the same configuration and different TLS contexts have
\* been compared.
C7_Witness ==
  /\ cmp # None
  /\ cmp[1].a # cmp[1].b
  /\ ConfigOf(connectors[cmp[1].a]) = ConfigOf(connectors[cmp[1].b])
  /\ connectors[cmp[1].a].tls # connectors[cmp[1].b].tls

\* C8: connect_with_uri makes one operation, the collaborator's
\* conn_with_connector on ProxySocket::new(target, the Connector's proxy) with
\* this Connector, no engine call, and returns exactly what the collaborator
\* returned, a plain socket or its error, for either scheme; a TLS socket is
\* only ever returned by upgrade_to_tls.
C8_UriDelegates ==
  \A t \in Callers :
    /\ call[t].name = "connect_with_uri" =>
          LET self == connectors[call[t].self]
              ps   == [target |-> call[t].target, proxy |-> self.proxy]
          IN  /\ Returned(t)
              /\ Len(trace[t]) = 1
              /\ trace[t][1].call = "conn_with_connector"
              /\ trace[t][1].arg = [ps |-> ps, connector |-> self]
              /\ ret[t][1] = ConnWithConnector(ps, self, trace[t][1].ret[1])
              /\ ReturnedOk(t) => ret[t][1].val.variant = "TCP"
    /\ (ReturnedOk(t) /\ ret[t][1].val.variant = "TLS") =>
          call[t].name = "upgrade_to_tls"

\* connect_with_uri returned a socket for an https target of a Connector
\* that has a proxy.
C8_Witness ==
  \E t \in Callers :
    /\ call[t].name = "connect_with_uri" /\ ReturnedOk(t)
    /\ call[t].target = "https"
    /\ connectors[call[t].self].proxy # None

\* What a returned call returns according to the Connector it was made on,
\* its own arguments and the answers its own operations got.
OwnOutcome(t) ==
  LET self == connectors[call[t].self]
      tr   == trace[t]
      last == tr[Len(tr)]
  IN  IF call[t].name = "connect_with_addr"
      THEN IF \E i \in DOMAIN tr : tr[i].ret = Some("err")
           THEN Err("SocketSetupError")
           ELSE IF last.ret = Some("ok")
           THEN Ok(SocketTCP([family        |-> call[t].addr.family,
                              nodelay       |-> self.nodelay,
                              read_timeout  |-> self.read_timeout,
                              write_timeout |-> self.write_timeout,
                              peer          |-> Some(call[t].addr)]))
           ELSE Err(last.ret[1])
      ELSE IF call[t].name = "connect_with_uri"
      THEN ConnWithConnector(ProxySocketNew(call[t].target, self.proxy), self,
                             last.ret[1])
      ELSE IF call[t].stream.variant = "TLS"
      THEN Err("ConnectionAborted")
      ELSE IF last.ret.tag = "Ok"
      THEN Ok(SocketTLS([ctx    |-> self.tls,
                         domain |-> call[t].domain,
                         stream |-> call[t].stream.inner,
                         steps  |-> Len(tr)]))
      ELSE Err(last.ret.err)

\* A step of the callers other than t leaves t's call as it is.
Untouched(t) ==
  /\ pc'[t] = pc[t] /\ call'[t] = call[t] /\ local'[t] = local[t]
  /\ ret'[t] = ret[t] /\ trace'[t] = trace[t]

\* C9: with several callers on one Connector, no step of any call changes the
\* Connector (its fields and its TLS context), a step changes the state of
\* one call only, and what a call returns is fixed by the Connector, the
\* call's own arguments and the answers its own operations got.
C9_NoSharedState ==
  /\ [][/\ connectors' = connectors
        /\ \E t \in Callers : \A u \in Callers \ {t} : Untouched(u)]_vars
  /\ [](\A t \in Callers : Returned(t) => ret[t][1] = OwnOutcome(t))

\* Two upgrades on the one Connector are both in their handshake loop.
C9_Witness ==
  /\ Len(connectors) = 1
  /\ \A t \in Callers : Upgrading(t, "TCP") /\ pc[t] = "handshake"
  /\ \E t, u \in Callers : local[t] # local[u]

\* C10: a connect_with_addr call allocates one socket and issues at most one
\* connect; when the OS answers the connect with a failure or a timeout, that
\* is the call's last operation and the call has returned that error.
C10_NoRetry ==
  \A t \in Callers :
    call[t].name = "connect_with_addr" =>
      LET tr == trace[t]
      IN  /\ Cardinality(Calls(tr, {"new"})) = 1
          /\ Cardinality(Calls(tr, {"connect", "connect_timeout"})) <= 1
          /\ \A i \in Calls(tr, {"connect", "connect_timeout"}) :
                tr[i].ret \notin {None, Some("ok")} =>
                  /\ i = Len(tr)
                  /\ Returned(t)
                  /\ ret[t] = Some(Err(tr[i].ret[1]))

\* A bounded connect timed out and the call returned the error.
C10_Witness ==
  \E t \in Callers :
    /\ call[t].name = "connect_with_addr"
    /\ ret[t] = Some(Err("TimedOut"))
    /\ trace[t][Len(trace[t])].call = "connect_timeout"

\* The socket options connect_with_addr sets.
OptionCalls == {"set_nodelay", "set_read_timeout", "set_write_timeout"}

\* C11: in connect_with_addr a failure to set a socket option (no-delay, the
\* read timeout, the write timeout) is the call's last operation: the call
\* has returned an error, it issued no connect and it returned no socket.
C11_OptionFailureSurfaced ==
  \A t \in Callers :
    call[t].name = "connect_with_addr" =>
      \A i \in Calls(trace[t], OptionCalls) :
        trace[t][i].ret = Some("err") =>
          /\ i = Len(trace[t])
          /\ ReturnedErr(t)
          /\ ret[t] = Some(Err("SocketSetupError"))
          /\ Calls(trace[t], {"connect", "connect_timeout"}) = {}

\* Setting no-delay failed under nodelay=true and the call returned.
C11_Witness ==
  \E t \in Callers :
    /\ call[t].name = "connect_with_addr" /\ ReturnedErr(t)
    /\ trace[t][Len(trace[t])].call = "set_nodelay"
    /\ trace[t][Len(trace[t])].ret = Some("err")

\* Caller t waits for the OS to answer a connect of this kind.
Connecting(t, kind) ==
  pc[t] = "connecting" /\ trace[t][Len(trace[t])].call = kind

\* C12: the connect connect_with_addr issues is connect_timeout with exactly
\* the configured duration when connect_timeout is Some, and the blocking
\* connect when it is None; and a bounded connect to an unreachable address
\* always ends, the call returning the TimedOut error.
C12_BoundedConnect ==
  /\ [](\A t \in Callers :
          call[t].name = "connect_with_addr" =>
            LET self == connectors[call[t].self]
                tr   == trace[t]
            IN  /\ \A i \in Calls(tr, {"connect_timeout"}) :
                      self.connect_timeout # None /\ tr[i].arg = self.connect_timeout
                /\ \A i \in Calls(tr, {"connect"}) : self.connect_timeout = None)
  /\ \A t \in {"c1"} :
        (Connecting(t, "connect_timeout") /\ ~call[t].addr.reachable)
          ~> (ret[t] = Some(Err("TimedOut")))

\* A bounded connect to an unreachable address is waiting for the OS.
C12_Witness ==
  \E t \in Callers :
    /\ Connecting(t, "connect_timeout") /\ ~call[t].addr.reachable
    /\ connectors[call[t].self].connect_timeout # None

\* The OS calls of a connect_with_addr that reaches its connect, in order.
ExpectedSteps(self) ==
  <<"new">>
    \o (IF self.nodelay THEN <<"set_nodelay">> ELSE <<>>)
    \o <<"set_read_timeout", "set_write_timeout">>
    \o (IF self.connect_timeout = None THEN <<"connect">> ELSE <<"connect_timeout">>)

\* The names of the calls in a trace.
StepNames(tr) == [i \in DOMAIN tr |-> tr[i].call]

\* C13: a connect_with_addr call that reaches its connect made exactly the
\* calls new, set_nodelay (only under nodelay=true), set_read_timeout,
\* set_write_timeout, connect, in this order; each timeout is set once, to the
\* configured value whether Some or None; and a plain socket handed to
\* upgrade_to_tls carries the configured timeouts when the handshake starts.
C13_SetupOrder ==
  \A t \in Callers :
    /\ call[t].name = "connect_with_addr" =>
          LET self  == connectors[call[t].self]
              tr    == trace[t]
              names == StepNames(tr)
              want  == ExpectedSteps(self)
          IN  /\ Len(tr) <= Len(want)
              /\ names = SubSeq(want, 1, Len(tr))
              /\ \A i \in Calls(tr, {"set_read_timeout"}) :
                    tr[i].arg = self.read_timeout
              /\ \A i \in Calls(tr, {"set_write_timeout"}) :
                    tr[i].arg = self.write_timeout
              /\ Calls(tr, {"connect", "connect_timeout"}) # {} =>
                    /\ names = want
                    /\ Cardinality(Calls(tr, {"set_read_timeout"})) = 1
                    /\ Cardinality(Calls(tr, {"set_write_timeout"})) = 1
              /\ ReturnedOk(t) =>
                    /\ ret[t][1].val.inner.read_timeout = self.read_timeout
                    /\ ret[t][1].val.inner.write_timeout = self.write_timeout
    /\ Upgrading(t, "TCP") =>
          /\ call[t].stream.inner.read_timeout
               = connectors[call[t].self].read_timeout
          /\ call[t].stream.inner.write_timeout
               = connectors[call[t].self].write_timeout

\* A connect_with_addr under nodelay=false, no read timeout and a write
\* timeout reached its connect and returned a socket.
C13_Witness ==
  \E t \in Callers :
    /\ call[t].name = "connect_with_addr" /\ ReturnedOk(t)
    /\ ~connectors[call[t].self].nodelay
    /\ connectors[call[t].self].read_timeout = None
    /\ connectors[call[t].self].write_timeout # None

\* C14: the handshake loop never ends on a would-block signal, however many
\* came before: while the last engine step reported would-block the call has
\* not returned, and a call that returned did so on a step that reported
\* something else; and when the transport answers every step and reports
\* would-block only finitely often, the call returns.
C14_UnboundedHandshake ==
  /\ [](\A t \in Callers :
          Upgrading(t, "TCP") =>
            LET tr == trace[t]
            IN  /\ tr # <<>>
                /\ \A i \in 1..(Len(tr) - 1) : tr[i].ret.tag = "WouldBlock"
                /\ tr[Len(tr)].ret.tag = "WouldBlock" <=> pc[t] = "handshake"
                /\ tr[Len(tr)].ret.tag = "WouldBlock" => ret[t] = None
                /\ tr[Len(tr)].ret.tag # "WouldBlock" => Returned(t))
  /\ \A t \in {"c1"} :
        (Upgrading(t, "TCP") /\ pc[t] = "handshake") ~> Returned(t)

\* The loop is still running after MaxWouldBlock would-block signals.
C14_Witness ==
  \E t \in Callers :
    /\ Upgrading(t, "TCP") /\ pc[t] = "handshake"
    /\ WouldBlocks(trace[t]) = MaxWouldBlock

\* The state an engine step leaves the TLS upgrade in.
StateAfter(r) ==
  IF r.tag = "WouldBlock" THEN "InHandshake"
  ELSE IF r.tag = "Ok" THEN "Established"
  ELSE "Failed"

\* The states an upgrade of a plain socket went through: tls.connect starts
\* the handshake and takes its first step, every later turn takes one more.
MachinePath(tr) ==
  <<"NotStarted", "InHandshake">> \o [i \in DOMAIN tr |-> StateAfter(tr[i].ret)]

\* C15: an upgrade goes NotStarted -> InHandshake -> (Established | Failed):
\* every engine step is taken from InHandshake, none from Established or
\* Failed; Established is entered from InHandshake by a step that returned Ok;
\* the call returns a Secure socket exactly when the machine ended in
\* Established, and that socket wraps the stream that was passed in; an
\* upgrade that has returned takes no further step.
C15_UpgradeMachine ==
  /\ [](\A t \in Callers :
          /\ Upgrading(t, "TCP") =>
                LET tr   == trace[t]
                    path == MachinePath(tr)
                    end  == path[Len(path)]
                IN  /\ \A i \in DOMAIN tr : path[i + 1] = "InHandshake"
                    /\ \A k \in DOMAIN path :
                          path[k] = "Established" =>
                            /\ k = Len(path)
                            /\ path[k - 1] = "InHandshake"
                            /\ tr[k - 2].ret.tag = "Ok"
                    /\ pc[t] = "handshake" <=> end = "InHandshake"
                    /\ ReturnedErr(t) <=> end = "Failed"
                    /\ ReturnedOk(t) <=> end = "Established"
                    /\ ReturnedOk(t) =>
                          /\ ret[t][1].val.variant = "TLS"
                          /\ ret[t][1].val.inner.stream = call[t].stream.inner
          /\ Upgrading(t, "TLS") => trace[t] = <<>> /\ ReturnedErr(t))
  /\ [][\A t \in Callers :
          Upgrading(t, "TCP") /\ Returned(t) => pc'[t] # "handshake"]_vars

\* An upgrade ended in Established after a step that reported would-block.
C15_Witness ==
  \E t \in Callers :
    /\ Upgrading(t, "TCP") /\ ReturnedOk(t)
    /\ MachinePath(trace[t])
         = <<"NotStarted", "InHandshake", "InHandshake", "Established">>

\* The last build() of the builder produced a Connector.
HasBuilt == built # None /\ built[1].tag = "Ok"

\* C16 as stated: once build() has produced a Connector from the builder, no
\* setter is called on the builder and it is not built again.
C16_ConsumedOnce ==
  [][HasBuilt => hist' = hist /\ ~(\E ok \in BOOLEAN : Build(ok))]_vars

\* C16: build() borrows the builder: a step that adds a Connector leaves the
\* builder and its chain as they were and the Connectors built before
\* untouched, the new Connector carries what the builder holds at that
\* moment, and the builder stays the outcome of its chain, so it can take
\* further setter calls and be built again.
C16_BuilderSurvivesBuild ==
  /\ [](builder = Chained(hist))
  /\ [][Len(connectors') > Len(connectors) =>
          LET n == Len(connectors')
          IN  /\ builder' = builder
              /\ hist' = hist
              /\ n = Len(connectors) + 1
              /\ SubSeq(connectors', 1, n - 1) = connectors
              /\ SubSeq(origin', 1, n - 1) = origin
              /\ \/ origin'[n] = <<>> /\ connectors'[n] = ConnectorDefault
                 \/ /\ origin'[n] = hist
                    /\ built' # None
                    /\ built'[1] = Ok(connectors'[n])
                    /\ connectors'[n].proxy = builder.proxy
                    /\ connectors'[n].nodelay = builder.nodelay
                    /\ connectors'[n].read_timeout = builder.read_timeout
                    /\ connectors'[n].write_timeout = builder.write_timeout
                    /\ connectors'[n].connect_timeout = builder.connect_timeout]_vars

\* The builder was built, took one more setter call and was built again.
C16_Witness ==
  /\ Len(connectors) = 2
  /\ Len(origin[1]) = 1 /\ Len(origin[2]) = 2
  /\ origin[2][1].field = origin[1][1].field
  /\ origin[2][1].value = origin[1][1].value
  /\ hist = origin[2]
  /\ HasBuilt

\* The proxy the collaborator is handed by connect_with_uri on the Connector
\* built from builder value b.
ProxyHanded(b, target) ==
  connect_with_uri(build(b, TRUE).val, target, "ok").trace[1].arg.ps.proxy

\* C17: the proxy connect_with_uri hands to the collaborator is the value the
\* builder's proxy setter was last given before build(), None for a builder
\* whose proxy was never set; and no call on a Connector alters the Connector,
\* its proxy included.
C17_ProxyCarried ==
  /\ [](\A t \in Callers :
          call[t].name = "connect_with_uri" =>
            LET given == LastSet(origin[call[t].self], "proxy", None)
            IN  /\ trace[t][1].arg.ps.proxy = given
                /\ trace[t][1].arg.connector.proxy = given
                /\ connectors[call[t].self].proxy = given)
  /\ [](\A target \in Targets :
          /\ ProxyHanded(ConnectorBuilderDefault, target) = None
          /\ \A a, b \in OptProxy :
                ProxyHanded(proxy(proxy(ConnectorBuilderDefault, a), b), target) = b)
  /\ [][/\ connectors' = connectors
        /\ \A t \in Callers :
              call'[t].name \in {"connect_with_addr", "upgrade_to_tls"} =>
                connectors'[call'[t].self].proxy
                  = LastSet(origin[call'[t].self], "proxy", None)]_vars

\* connect_with_uri on a Connector whose chain set a proxy has handed that
\* proxy to the collaborator.
C17_Witness ==
  \E t \in Callers :
    /\ call[t].name = "connect_with_uri" /\ Returned(t)
    /\ trace[t][1].arg.ps.proxy = Some("proxy_a")

\* C18: upgrade_to_tls takes its input socket for good: while the call runs
\* its caller holds no socket, an upgrade that returned an error, on a plain
\* or on a TLS input, returned the error alone, with no socket in it, and all
\* its caller can do next is let go of the error: no call is made on the
\* socket that was passed in.
C18_InputConsumed ==
  /\ [](\A t \in Callers :
          call[t].name = "upgrade_to_tls" =>
            /\ pc[t] = "handshake" => ret[t] = None
            /\ ReturnedErr(t) =>
                  /\ DOMAIN ret[t][1] = {"tag", "kind"}
                  /\ ret[t][1].kind
                       \in {"ConnectionAborted", "HandshakeIo", "HandshakeCertificate"}
                  /\ call[t].stream.variant = "TLS"
                       <=> ret[t][1].kind = "ConnectionAborted")
  /\ [][\A t \in Callers :
          (call[t].name = "upgrade_to_tls" /\ ReturnedErr(t)) =>
            \/ UNCHANGED <<pc[t], call[t], ret[t]>>
            \/ pc'[t] = "idle" /\ call'[t] = NoCall /\ ret'[t] = None]_vars

\* An upgrade of a plain socket failed after a would-block signal.
C18_Witness ==
  \E t \in Callers :
    /\ Upgrading(t, "TCP") /\ ReturnedErr(t)
    /\ Len(trace[t]) = 2

====
